---- MODULE Spec2Model ----
(***************************************************************************)
(* Lecture Audio Cleaner: the task orchestrator (gui/main_window.py), its  *)
(* per-task processing threads and the staged pipeline they run            *)
(* (audio/processor.py), with the task descriptor (audio/task.py).         *)
(*                                                                         *)
(* The GUI thread runs one handler at a time; a handler blocks only in     *)
(* QThread.wait().  Signals of a ProcessingThread are emitted in the       *)
(* worker thread and received by MainWindow slots in the GUI thread, so    *)
(* they are queued connections: an emission is appended to the GUI         *)
(* thread's event queue and the slot runs when the GUI thread is back in   *)
(* its event loop.                                                         *)
(***************************************************************************)
EXTENDS Integers, Sequences, FiniteSets, TLC

VARIABLES
    tasks,               \* MainWindow.tasks: insertion-ordered dict name -> (task, task_item)
    processing_threads,  \* MainWindow.processing_threads: ordered dict name -> thread
    items,               \* every TaskItem ever created, by creation index
    thr,                 \* every ProcessingThread ever created, by creation index
    queue,               \* queued signal emissions waiting for the GUI event loop
    files,               \* files written by the save stage
    main,                \* position of the GUI thread (idle, or blocked in wait())
    hist                 \* per-thread observation log (what each run did and was told)

vars == <<tasks, processing_threads, items, thr, queue, files, main, hist>>

\* ---------------------------------------------------------------- bounds
MaxRuns == 2    \* Spec: ProcessingThread objects created in one behaviour
MaxAdds == 2    \* Spec: accepted "Add Task" dialogs in one behaviour
RunRuns == 1    \* SpecRun: ProcessingThread objects created in one behaviour
RunAdds == 1    \* SpecRun: accepted "Add Task" dialogs in one behaviour

\* ---------------------------------------------------------------- paths
\* A file name is a sequence of tokens; "." is the separator token.
EmptyPath == [dir |-> "", file |-> <<>>]

\* str.rfind('.') on the final path component, 0 when there is none
RFindDot(f) ==
    LET dots == {i \in 1..Len(f) : f[i] = "."}
    IN  IF dots = {} THEN 0 ELSE CHOOSE i \in dots : \A j \in dots : j <= i

\* pathlib: the suffix starts at the last dot unless that dot is the first or
\* the last character of the name
HasSuffix(f) == RFindDot(f) > 1 /\ RFindDot(f) < Len(f)

PathSuffix(p) ==
    IF HasSuffix(p.file) THEN SubSeq(p.file, RFindDot(p.file), Len(p.file)) ELSE <<>>

PathStem(p) ==
    IF HasSuffix(p.file) THEN SubSeq(p.file, 1, RFindDot(p.file) - 1) ELSE p.file

\* AudioTask.__post_init__: the name defaults to the stem of the input path
TaskName(p) == PathStem(p)

\* AudioTask.output_path
output_pathInPlace(p) == p

output_pathFixed(p) == [dir |-> "", file |-> <<"_cleaned">>]

output_path(p) == [dir |-> p.dir, file |-> PathStem(p) \o <<"_cleaned">> \o PathSuffix(p)]

SupportedExt == {"wav", "mp3", "m4a", "aac", "ogg", "flac"}

\* str.lower() on the extensions that occur
Lower(e) ==
    CASE e = "WAV" -> "wav"
      [] e = "MP3" -> "mp3"
      [] OTHER -> e

\* AudioTask.output_format
output_format(p) ==
    LET s == PathSuffix(p)
    IN  IF Len(s) = 2 /\ Lower(s[2]) \in SupportedExt THEN Lower(s[2]) ELSE "wav"

NewTask(p, enh) == [input_path |-> p, name |-> TaskName(p), enable_speech_enhancement |-> enh]

\* The configurations a dialog is accepted with: a file of the disk below and
\* the enhancement check box; the empty path is a dialog accepted with no file.
File(d, stem, ext) == [dir |-> d, file |-> <<stem, ".", ext>>]
Config(p, enh) == [input_path |-> p, enh |-> enh]

Configs ==
    { Config(File("a", "x", "wav"), FALSE),
      Config(File("b", "x", "mp3"), FALSE),
      Config(File("c", "y", "ogg"), FALSE),
      Config(EmptyPath, TRUE) }

RunConfigs ==
    Configs \cup
    { Config(File("a", "z", "wav"), TRUE),
      Config(File("a", "t", "mp3"), TRUE),
      Config(File("e", "u", "wav"), TRUE),
      Config(File("f", "v", "flac"), FALSE),
      Config(File("a", "n", "wma"), FALSE),
      Config([dir |-> "a", file |-> <<"m">>], FALSE),
      Config([dir |-> "a", file |-> <<".", "h">>], FALSE),
      Config([dir |-> "a", file |-> <<"p", ".", "q", ".", "wav">>], FALSE),
      Config([dir |-> "a", file |-> <<"k", ".">>], FALSE),
      Config(File("a", "w", "WAV"), FALSE),
      Config(File("a", "c", "m4a"), FALSE) }

NamesOf(configs) == {TaskName(c.input_path) : c \in configs} \ {<<>>}

\* ---------------------------------------------------------------- dicts
\* A Python dict as the sequence of its entries in insertion order.
Keys(d) == [i \in 1..Len(d) |-> d[i].name]
Has(d, k) == \E i \in 1..Len(d) : d[i].name = k
Get(d, k) == d[CHOOSE i \in 1..Len(d) : d[i].name = k]
Put(d, e) ==
    IF Has(d, e.name)
    THEN [i \in 1..Len(d) |-> IF d[i].name = e.name THEN e ELSE d[i]]
    ELSE Append(d, e)
PopAll(d, k) == <<>>

Pop(d, k) == SelectSeq(d, LAMBDA e : e.name # k)

\* ---------------------------------------------------------------- records
Idle == [pc |-> "idle", cont |-> "", name |-> <<>>, tid |-> 0, rest |-> <<>>,
         success |-> FALSE, message |-> ""]

NewItem(n) == [name |-> n, is_running |-> FALSE, progress |-> 0,
               status_visible |-> FALSE, message |-> "", success |-> FALSE,
               in_layout |-> TRUE]

NoOutcome == [success |-> FALSE, message |-> ""]

\* ProcessingThread.__init__ followed by QThread.start(); success is the local
\* of run(), outcome the arguments run() picks for task_completed
NewThread(task) == [task |-> task, is_running |-> FALSE, pc |-> "started",
                    stage |-> "load", success |-> FALSE, outcome |-> NoOutcome]

\* stop: when stop() was called on the thread ("none", "before_save" when the
\* save stage had not begun, "before_emit" when it had but task_completed was
\* not emitted yet, "after_emit"); late: an emission of the thread reached its
\* slot after stop_task had returned for the thread
\* writer: the branch the save stage took ("none" before it); noise_clip and
\* y_reduced: the y_noise and y arguments _apply_noise_reduction gave reduce_noise
NewHist == [progress_values |-> <<>>, stages |-> <<>>, failed |-> "none",
            stop |-> "none", stopReturned |-> FALSE,
            finished |-> FALSE, delivered |-> <<>>, late |-> FALSE,
            writer |-> "none", noise_clip |-> <<>>, y_reduced |-> <<>>,
            completions |-> 0]

ProgressEvent(t, n, p) == [sig |-> "progress_updated", tid |-> t, name |-> n,
                           progress |-> p, success |-> FALSE, message |-> ""]

CompletedEvent(t, n, s, m) == [sig |-> "task_completed", tid |-> t, name |-> n,
                               progress |-> 0, success |-> s, message |-> m]

Init ==
    /\ tasks = <<>>
    /\ processing_threads = <<>>
    /\ items = <<>>
    /\ thr = <<>>
    /\ queue = <<>>
    /\ files = {}
    /\ main = Idle
    /\ hist = <<>>

Threads == 1..Len(thr)

\* ------------------------------------------------- ProcessingThread.run
\* run() line 28: the flag is set when the worker starts executing
RunBegin(t) ==
    /\ thr[t].pc = "started"
    /\ thr' = [thr EXCEPT ![t].is_running = TRUE, ![t].pc = "stage"]
    /\ UNCHANGED <<tasks, processing_threads, items, queue, files, main, hist>>

\* process_audio: the value passed to progress_callback before each stage,
\* and after the last one
CheckpointSwapped(stage) ==
    CASE stage = "load" -> 10
      [] stage = "noise_reduction" -> 30
      [] stage = "speech_enhancement" -> 60
      [] stage = "save" -> 100
      [] stage = "done" -> 80

Checkpoint(stage) ==
    CASE stage = "load" -> 10
      [] stage = "noise_reduction" -> 30
      [] stage = "speech_enhancement" -> 60
      [] stage = "save" -> 80
      [] stage = "done" -> 100

\* process_audio: what follows a stage; an exception of any stage reaches the
\* outer except, which returns False
NextStageSwallow(stage, ok, enh) ==
    CASE stage = "load" -> "noise_reduction"
      [] stage = "noise_reduction" -> IF enh THEN "speech_enhancement" ELSE "save"
      [] stage = "speech_enhancement" -> "save"
      [] stage = "save" -> "done"

NextStage(stage, ok, enh) ==
    IF ~ok THEN "failed"
    ELSE CASE stage = "load" -> "noise_reduction"
           [] stage = "noise_reduction" -> IF enh THEN "speech_enhancement" ELSE "save"
           [] stage = "speech_enhancement" -> "save"
           [] stage = "save" -> "done"

\* What a stage does with a file is a fact about the file: librosa.load raises
\* for a missing one, reduce_noise for an empty signal, the writer for a
\* destination it cannot write.
MissingInputs == {File("b", "x", "mp3"), File("c", "y", "ogg")}
EmptySignals == {File("e", "u", "wav")}
UnwritableOutputs == {File("f", "v", "flac")}

\* librosa.load(path, sr=None): the samples of the file and its own sample
\* rate; the files of the disk hold three, two, one and no sample at a rate of
\* two samples a second
Signal(p) ==
    [y |-> CASE p \in EmptySignals -> <<>>
             [] p = File("a", "t", "mp3") -> <<7>>
             [] p = File("a", "z", "wav") -> <<7, 8>>
             [] OTHER -> <<7, 8, 9>>,
     sr |-> 2]

\* y[:stop] for stop >= 0: a slice stops at the end of the sequence
SliceToUnclamped(y, stop) == [i \in 1..stop |-> IF i <= Len(y) THEN y[i] ELSE 0]

SliceTo(y, stop) == SubSeq(y, 1, IF stop > Len(y) THEN Len(y) ELSE stop)

\* _apply_noise_reduction line 158
noise_clip(y, sr) == SliceTo(y, sr)

\* _enhance_speech returns its input and cannot raise
StageOk(stage, p) ==
    CASE stage = "load" -> p \notin MissingInputs
      [] stage = "noise_reduction" -> p \notin EmptySignals
      [] stage = "speech_enhancement" -> TRUE
      [] stage = "save" -> p \notin UnwritableOutputs

\* process_audio, one stage: progress_callback(checkpoint), whose lambda emits
\* progress_updated(task.name, p), then the stage itself
Stage(t) ==
    /\ thr[t].pc = "stage"
    /\ thr[t].stage \in {"load", "noise_reduction", "speech_enhancement"}
    /\ LET s == thr[t].stage
           p == Checkpoint(s)
           ok == StageOk(s, thr[t].task.input_path)
           n == NextStage(s, ok, thr[t].task.enable_speech_enhancement)
           sig == Signal(thr[t].task.input_path)
       IN  /\ queue' = Append(queue, ProgressEvent(t, thr[t].task.name, p))
           /\ hist' = [hist EXCEPT ![t].progress_values = Append(@, p),
                                   ![t].stages = Append(@, s),
                                   ![t].failed = IF ok THEN @ ELSE s,
                                   ![t].noise_clip =
                                       IF s = "noise_reduction"
                                       THEN noise_clip(sig.y, sig.sr) ELSE @,
                                   ![t].y_reduced =
                                       IF s = "noise_reduction" THEN sig.y ELSE @]
           /\ thr' = IF n = "failed"
                     THEN [thr EXCEPT ![t].pc = "check", ![t].success = FALSE]
                     ELSE [thr EXCEPT ![t].stage = n]
    /\ UNCHANGED <<tasks, processing_threads, items, files, main>>

\* the save stage, lines 86-99: an output format of mp3 is written to a WAV
\* buffer in memory and exported by pydub; every other format is written by
\* sf.write straight to the output path
SaveWriter(fmt) == IF Lower(fmt) = "mp3" THEN "transcode" ELSE "direct"

\* the save stage: progress_callback(80), then sf.write / AudioSegment.export
\* to task.output_path; a write that raises may already have created the file
Save(t) ==
    /\ thr[t].pc = "stage"
    /\ thr[t].stage = "save"
    /\ LET p == Checkpoint("save")
           ok == StageOk("save", thr[t].task.input_path)
           n == NextStage("save", ok, thr[t].task.enable_speech_enhancement)
           out == output_path(thr[t].task.input_path)
       IN  /\ queue' = Append(queue, ProgressEvent(t, thr[t].task.name, p))
           /\ hist' = [hist EXCEPT ![t].progress_values = Append(@, p),
                                   ![t].stages = Append(@, "save"),
                                   ![t].failed = IF ok THEN @ ELSE "save",
                                   ![t].writer =
                                       SaveWriter(output_format(thr[t].task.input_path))]
           /\ \E created \in BOOLEAN :
                /\ ok => created
                /\ files' = IF created
                            THEN {f \in files : f.path # out}
                                   \cup {[path |-> out, tid |-> t, complete |-> ok]}
                            ELSE files
           /\ thr' = IF n = "failed"
                     THEN [thr EXCEPT ![t].pc = "check", ![t].success = FALSE]
                     ELSE [thr EXCEPT ![t].stage = n]
    /\ UNCHANGED <<tasks, processing_threads, items, main>>

\* process_audio lines 106-109: progress_callback(100) and return True
Finish(t) ==
    /\ thr[t].pc = "stage"
    /\ thr[t].stage = "done"
    /\ LET p == Checkpoint("done")
       IN  /\ queue' = Append(queue, ProgressEvent(t, thr[t].task.name, p))
           /\ hist' = [hist EXCEPT ![t].progress_values = Append(@, p)]
           /\ thr' = [thr EXCEPT ![t].pc = "check", ![t].success = TRUE]
    /\ UNCHANGED <<tasks, processing_threads, items, files, main>>

\* run() lines 36-43: the flag is read once, after process_audio has returned
Outcome(is_running, success) ==
    IF ~is_running THEN [success |-> FALSE, message |-> "Task cancelled"]
    ELSE IF success THEN [success |-> TRUE, message |-> "Processing completed successfully"]
    ELSE [success |-> FALSE, message |-> "Processing failed"]

\* (completions in the observation log counts the task_completed emissions)
CheckCancelSilent(t) ==
    /\ thr[t].pc = "check"
    /\ thr' = [thr EXCEPT ![t].pc = IF thr[t].is_running THEN "emit" ELSE "finally",
                           ![t].outcome = Outcome(thr[t].is_running, thr[t].success)]
    /\ UNCHANGED <<tasks, processing_threads, items, queue, files, main, hist>>

CheckCancel(t) ==
    /\ thr[t].pc = "check"
    /\ thr' = [thr EXCEPT ![t].pc = "emit",
                           ![t].outcome = Outcome(thr[t].is_running, thr[t].success)]
    /\ UNCHANGED <<tasks, processing_threads, items, queue, files, main, hist>>

\* run(): task_completed.emit(name, success, message)
EmitCompleted(t) ==
    /\ thr[t].pc = "emit"
    /\ queue' = Append(queue, CompletedEvent(t, thr[t].task.name,
                                             thr[t].outcome.success,
                                             thr[t].outcome.message))
    /\ hist' = [hist EXCEPT ![t].finished = TRUE, ![t].completions = @ + 1]
    /\ thr' = [thr EXCEPT ![t].pc = "finally"]
    /\ UNCHANGED <<tasks, processing_threads, items, files, main>>

\* run(): finally: self.is_running = False, and the thread ends
Finally(t) ==
    /\ thr[t].pc = "finally"
    /\ thr' = [thr EXCEPT ![t].is_running = FALSE, ![t].pc = "done"]
    /\ UNCHANGED <<tasks, processing_threads, items, queue, files, main, hist>>

Worker ==
    \E t \in Threads :
        \/ RunBegin(t)
        \/ Stage(t)
        \/ Save(t)
        \/ Finish(t)
        \/ CheckCancel(t)
        \/ EmitCompleted(t)
        \/ Finally(t)

\* ------------------------------------------------------------ MainWindow
\* TaskItem.set_running(True): the status label is hidden, the bar reset
SetRunningTrue(it) == [it EXCEPT !.is_running = TRUE, !.status_visible = FALSE,
                                 !.progress = 0]

\* add_task line 137: the entry of the name is set, replacing one that exists
Register(d, e) == Put(d, e)

\* add_task: the dialog was accepted with input path p; an empty path adds
\* nothing.  The TaskItem of a replaced entry stays in the layout (nothing
\* removes it).
AddTask(p, enh, maxAdds) ==
    /\ main.pc = "idle"
    /\ Len(items) < maxAdds
    /\ IF p = EmptyPath
       THEN UNCHANGED <<tasks, items>>
       ELSE LET task == NewTask(p, enh)
                id == Len(items) + 1
            IN  /\ items' = Append(items, NewItem(task.name))
                /\ tasks' = Register(tasks, [name |-> task.name, task |-> task,
                                             item |-> id])
    /\ UNCHANGED <<processing_threads, thr, queue, files, main, hist>>

StopPoint(th) ==
    IF th.pc \in {"finally", "done"} THEN "after_emit"
    ELSE IF th.pc = "started" \/ (th.pc = "stage" /\ th.stage # "done")
         THEN "before_save"
         ELSE "before_emit"

\* ProcessingThread.stop: the flag of the thread it is called on is cleared
StoppedAll(t) == [u \in 1..Len(thr) |-> [thr[u] EXCEPT !.is_running = FALSE]]

Stopped(t) == [thr EXCEPT ![t].is_running = FALSE]

\* stop_task lines 168-171: pop the thread, clear its flag (ProcessingThread.stop),
\* block in wait().  h is the observation log to extend.
StopCall(n, cont, rest, ev, h) ==
    LET t == Get(processing_threads, n).tid
    IN  /\ processing_threads' = Pop(processing_threads, n)
        /\ thr' = Stopped(t)
        /\ hist' = [h EXCEPT ![t].stop = StopPoint(thr[t])]
        /\ main' = [pc |-> "wait", cont |-> cont, name |-> n, tid |-> t, rest |-> rest,
                    success |-> ev.success, message |-> ev.message]

\* stop_task line 168
StopGuardNever(n) == FALSE

StopGuard(n) == Has(processing_threads, n)

\* stop_task, called directly; without a thread for the name it does nothing
StopTask(n) ==
    /\ main.pc = "idle"
    /\ IF StopGuard(n)
       THEN StopCall(n, "stop", <<>>, NoOutcome, hist)
       ELSE UNCHANGED <<processing_threads, thr, hist, main>>
    /\ UNCHANGED <<tasks, items, queue, files>>

\* remove_task line 147: the record is discarded
RemoveRecordKeep(n) == tasks

RemoveRecord(n) == Pop(tasks, n)

\* remove_task: stop_task first when a thread is registered, then pop and
\* deleteLater (the widget leaves the layout)
RemoveTask(n) ==
    /\ main.pc = "idle"
    /\ IF ~Has(tasks, n)
       THEN UNCHANGED <<tasks, processing_threads, items, thr, hist, main>>
       ELSE IF StopGuard(n)
       THEN /\ StopCall(n, "remove", <<>>, NoOutcome, hist)
            /\ UNCHANGED <<tasks, items>>
       ELSE /\ tasks' = RemoveRecord(n)
            /\ items' = [items EXCEPT ![Get(tasks, n).item].in_layout = FALSE]
            /\ UNCHANGED <<processing_threads, thr, hist, main>>
    /\ UNCHANGED <<queue, files>>

\* A ProcessingThread that has finished, is no longer in processing_threads and
\* has no emission pending is referenced by nothing: the object is released.
\* Its index is not reused.
Released(t) ==
    /\ thr[t].pc = "done"
    /\ \A i \in 1..Len(processing_threads) : processing_threads[i].tid # t
    /\ \A i \in 1..Len(queue) : queue[i].tid # t

GoneThread == [task |-> NewTask(EmptyPath, FALSE), is_running |-> FALSE, pc |-> "gone",
               stage |-> "load", success |-> FALSE, outcome |-> NoOutcome]

LiveThreads == [t \in 1..Len(thr) |-> IF Released(t) THEN GoneThread ELSE thr[t]]

LiveHist == [t \in 1..Len(thr) |-> IF Released(t) THEN NewHist ELSE hist[t]]

\* start_task line 152
StartGuardNoRunningCheck(n) == Has(tasks, n)

StartGuard(n) == Has(tasks, n) /\ ~Has(processing_threads, n)

\* start_task; for a name that is not registered or has a thread it does nothing
StartTask(n, maxRuns) ==
    /\ main.pc = "idle"
    /\ IF StartGuard(n)
       THEN /\ Len(thr) < maxRuns
            /\ thr' = Append(LiveThreads, NewThread(Get(tasks, n).task))
            /\ hist' = Append(LiveHist, NewHist)
            /\ processing_threads' =
                   Put(processing_threads, [name |-> n, tid |-> Len(thr) + 1])
            /\ items' = [items EXCEPT ![Get(tasks, n).item] = SetRunningTrue(@)]
       ELSE UNCHANGED <<processing_threads, items, thr, hist>>
    /\ UNCHANGED <<tasks, queue, files, main>>

\* start_all_tasks: start_task for every registered name without a thread;
\* with no task registered only a warning is shown
StartAll(maxRuns) ==
    /\ main.pc = "idle"
    /\ LET toStart == SelectSeq(Keys(tasks),
                                LAMBDA k : ~Has(processing_threads, k) /\ StartGuard(k))
           k == Len(toStart)
       IN  /\ Len(thr) + k <= maxRuns
           /\ thr' = IF k = 0 THEN thr
                     ELSE LiveThreads \o
                          [i \in 1..k |-> NewThread(Get(tasks, toStart[i]).task)]
           /\ hist' = IF k = 0 THEN hist ELSE LiveHist \o [i \in 1..k |-> NewHist]
           /\ processing_threads' = processing_threads \o
                  [i \in 1..k |-> [name |-> toStart[i], tid |-> Len(thr) + i]]
           /\ items' = [j \in 1..Len(items) |->
                           IF \E i \in 1..k : Get(tasks, toStart[i]).item = j
                           THEN SetRunningTrue(items[j]) ELSE items[j]]
    /\ UNCHANGED <<tasks, queue, files, main>>

\* stop_all_tasks (also closeEvent): stop_task over a snapshot of the keys
StopAll ==
    /\ main.pc = "idle"
    /\ LET keys == Keys(processing_threads)
       IN  IF keys # <<>>
           THEN StopCall(Head(keys), "stop_all", Tail(keys), NoOutcome, hist)
           ELSE UNCHANGED <<processing_threads, thr, hist, main>>
    /\ UNCHANGED <<tasks, items, queue, files>>

\* QThread.wait() returns once run() has returned
NoWait(t) == TRUE

ThreadFinished(t) == thr[t].pc = "done"

\* stop_task lines 173-175 after wait() has returned, then the rest of the
\* handler that called stop_task
WaitReturn ==
    /\ main.pc = "wait"
    /\ ThreadFinished(main.tid)
    /\ LET n == main.name
           t == main.tid
           h1 == [hist EXCEPT ![t].stopReturned = TRUE]
       IN  IF ~Has(tasks, n)
           THEN \* self.tasks[task_name] raises KeyError: the handler is abandoned
                /\ main' = [Idle EXCEPT !.cont = "KeyError"]
                /\ hist' = h1
                /\ UNCHANGED <<tasks, processing_threads, items, thr>>
           ELSE LET it == Get(tasks, n).item
                    items1 == [items EXCEPT ![it].is_running = FALSE]
                    rest == SelectSeq(main.rest, LAMBDA k : StopGuard(k))
                IN  CASE main.cont = "stop" ->
                           /\ main' = Idle
                           /\ hist' = h1
                           /\ items' = items1
                           /\ UNCHANGED <<tasks, processing_threads, thr>>
                      [] main.cont = "remove" ->
                           /\ main' = Idle
                           /\ hist' = h1
                           /\ tasks' = RemoveRecord(n)
                           /\ items' = [items1 EXCEPT ![it].in_layout = FALSE]
                           /\ UNCHANGED <<processing_threads, thr>>
                      [] main.cont = "stop_all" /\ rest = <<>> ->
                           /\ main' = Idle
                           /\ hist' = h1
                           /\ items' = items1
                           /\ UNCHANGED <<tasks, processing_threads, thr>>
                      [] main.cont = "stop_all" /\ rest # <<>> ->
                           /\ StopCall(Head(rest), "stop_all", Tail(rest), NoOutcome, h1)
                           /\ items' = items1
                           /\ UNCHANGED tasks
                      [] main.cont = "completed" ->
                           \* on_task_completed lines 204-206: set_status; the
                           \* message box of a failure changes no state
                           /\ main' = Idle
                           /\ hist' = h1
                           /\ items' = [items1 EXCEPT ![it].status_visible = TRUE,
                                                      ![it].message = main.message,
                                                      ![it].success = main.success]
                           /\ UNCHANGED <<tasks, processing_threads, thr>>
    /\ UNCHANGED <<queue, files>>

\* the GUI event loop takes queued emissions in the order they were posted
LastEventIndex(q) == Len(q)

NextEventIndex(q) == 1

Dequeue(q, i) == [j \in 1..(Len(q) - 1) |-> IF j < i THEN q[j] ELSE q[j + 1]]

Delivered(h, e) ==
    [h EXCEPT ![e.tid].delivered = Append(@, [sig |-> e.sig, progress |-> e.progress]),
              ![e.tid].late = @ \/ h[e.tid].stopReturned]

\* update_task_progress, the slot of a queued progress_updated emission
UpdateTaskProgress ==
    /\ main.pc = "idle"
    /\ queue # <<>>
    /\ LET i == NextEventIndex(queue)
           e == queue[i]
       IN  /\ e.sig = "progress_updated"
           /\ queue' = Dequeue(queue, i)
           /\ hist' = Delivered(hist, e)
           /\ items' = IF Has(tasks, e.name)
                       THEN [items EXCEPT ![Get(tasks, e.name).item].progress = e.progress]
                       ELSE items
    /\ UNCHANGED <<tasks, processing_threads, thr, files, main>>

\* on_task_completed, the slot of a queued task_completed emission
OnTaskCompleted ==
    /\ main.pc = "idle"
    /\ queue # <<>>
    /\ LET i == NextEventIndex(queue)
           e == queue[i]
       IN  /\ e.sig = "task_completed"
           /\ queue' = Dequeue(queue, i)
           /\ IF Has(processing_threads, e.name)
              THEN StopCall(e.name, "completed", <<>>, e, Delivered(hist, e))
              ELSE /\ hist' = Delivered(hist, e)
                   /\ UNCHANGED <<processing_threads, thr, main>>
    /\ UNCHANGED <<tasks, items, files>>

\* What the handlers give back to their caller: remove_task, start_task and
\* stop_task have no return statement and raise nothing on a name that is not
\* registered, so the caller gets None whatever the name.
remove_task_result(n) == IF Has(tasks, n) THEN "None" ELSE "None"

start_task_result(n) == IF StartGuard(n) THEN "None" ELSE "None"

stop_task_result(n) == IF StopGuard(n) THEN "None" ELSE "None"

\* ------------------------------------------------------- specifications
NextOf(configs, maxAdds, maxRuns) ==
    \/ Worker
    \/ \E c \in configs : AddTask(c.input_path, c.enh, maxAdds)
    \/ \E n \in NamesOf(configs) : RemoveTask(n)
    \/ \E n \in NamesOf(configs) : StartTask(n, maxRuns)
    \/ \E n \in NamesOf(configs) : StopTask(n)
    \/ StartAll(maxRuns)
    \/ StopAll
    \/ WaitReturn
    \/ UpdateTaskProgress
    \/ OnTaskCompleted

\* the orchestrator with concurrent and repeated runs
Next == NextOf(Configs, MaxAdds, MaxRuns)

Spec == Init /\ [][Next]_vars

\* one run of every kind of file
NextRun == NextOf(RunConfigs, RunAdds, RunRuns)

SpecRun == Init /\ [][NextRun]_vars

\* one run of every kind of file, where a thread that can take a step of run()
\* takes it in the end (every stage returns) and the GUI thread leaves wait()
\* once the thread has finished
SpecRunFair == SpecRun /\ WF_vars(Worker) /\ WF_vars(WaitReturn)

\* ------------------------------------------------------------ the claims
Contains(seq, x) == \E i \in 1..Len(seq) : seq[i] = x

NonDecreasing(seq) == \A i, j \in 1..Len(seq) : i < j => seq[i] <= seq[j]

WroteFile(t) == \E f \in files : f.tid = t

\* process_audio has returned in thread t
Returned(t) == thr[t].pc \in {"check", "emit", "finally", "done"}

\* C1: a run whose stop() was called after start_task and before its
\* task_completed was emitted emits (False, "Task cancelled").
C1_StopBeforeFinishedCancels ==
    \A t \in Threads :
        (hist[t].stop \in {"before_save", "before_emit"} /\ hist[t].finished)
            => thr[t].outcome = [success |-> FALSE, message |-> "Task cancelled"]

\* C2: a run whose stop() was called before its save stage began never runs
\* the save stage and writes no file.
C2_CancelBeforeSaveWritesNothing ==
    \A t \in Threads :
        hist[t].stop = "before_save"
            => ~Contains(hist[t].stages, "save") /\ ~WroteFile(t)

\* C3: when the GUI thread leaves the wait() of stop_task, the thread it waited
\* for has finished run() and the name has no entry in processing_threads; and
\* the GUI thread enters that wait only for the thread registered for the name.
C3_StopReturnsAfterTermination ==
    [][ /\ (main.pc = "wait" /\ main' # main)
            => /\ thr[main.tid].pc = "done"
               /\ thr'[main.tid].pc = "done"
               /\ ~Has(processing_threads, main.name)
        /\ (main'.pc = "wait" /\ main' # main)
            => /\ Has(processing_threads, main'.name)
               /\ Get(processing_threads, main'.name).tid = main'.tid
               /\ ~Has(processing_threads', main'.name) ]_vars

C3_Witness ==
    \E t \in Threads :
        /\ hist[t].stop = "before_save"
        /\ hist[t].stopReturned
        /\ thr[t].pc = "done"
        /\ main.pc = "idle"
        /\ ~Has(processing_threads, thr[t].task.name)

\* C4: no emission of a thread reaches update_task_progress or
\* on_task_completed after stop_task has returned for that thread.
C4_NoEventAfterStop == \A t \in Threads : ~hist[t].late

\* C5: every name has at most one thread that has not finished, and a thread
\* that has not finished is the one registered for its name or the one the GUI
\* thread is waiting for: start_task on a name with a thread creates none.
C5_OneLiveUnitPerName ==
    /\ \A t, u \in Threads :
          (/\ thr[t].pc \notin {"done", "gone"}
           /\ thr[u].pc \notin {"done", "gone"}
           /\ thr[t].task.name = thr[u].task.name) => t = u
    /\ \A t \in Threads :
          thr[t].pc \notin {"done", "gone"}
              => \/ (main.pc = "wait" /\ main.tid = t)
                 \/ (/\ Has(processing_threads, thr[t].task.name)
                     /\ Get(processing_threads, thr[t].task.name).tid = t)
    /\ \A i, j \in 1..Len(processing_threads) :
          processing_threads[i].name = processing_threads[j].name => i = j

\* a registered thread is running its pipeline and another thread could still
\* be created: start_task for that name is taken and creates none
C5_Witness ==
    \E n \in NamesOf(Configs) :
        /\ main.pc = "idle"
        /\ Len(thr) < MaxRuns
        /\ Has(processing_threads, n)
        /\ thr[Get(processing_threads, n).tid].pc = "stage"
        /\ ~StartGuard(n)

\* C6: registered names are unique and each name has one displayed item: no two
\* TaskItems of the layout carry the same name.
C6_OneItemPerName ==
    \A i, j \in 1..Len(items) :
        (items[i].in_layout /\ items[j].in_layout /\ items[i].name = items[j].name)
            => i = j

\* C7: when remove_task returns after stopping a thread, the thread has
\* finished, the name is neither registered nor has a thread; and a name that
\* becomes registered has no thread and an item that is not running.
C7_RemoveStopsThenPurges ==
    [][ /\ (main.pc = "wait" /\ main.cont = "remove" /\ main'.pc = "idle")
            => /\ thr'[main.tid].pc = "done"
               /\ ~Has(tasks', main.name)
               /\ ~Has(processing_threads', main.name)
               /\ ~StopGuard(main.name)'
        /\ \A n \in NamesOf(Configs) :
              (~Has(tasks, n) /\ Has(tasks', n))
                  => /\ ~Has(processing_threads', n)
                     /\ ~items'[Get(tasks', n).item].is_running ]_vars

\* a task removed while its thread ran, then added again under the same name
C7_Witness ==
    \E i, j \in 1..Len(items), t \in Threads :
        /\ i # j
        /\ items[i].name = items[j].name
        /\ ~items[i].in_layout
        /\ items[j].in_layout
        /\ Has(tasks, items[j].name)
        /\ Get(tasks, items[j].name).item = j
        /\ ~Has(processing_threads, items[j].name)
        /\ thr[t].task.name = items[i].name
        /\ hist[t].stop = "before_save"
        /\ hist[t].stopReturned

\* C8: the values a run passes to progress_callback are non-decreasing and in
\* 0..100; when process_audio has returned True the last one is 100; a run with
\* a failed stage never passes 100.
C8_ProgressMonotoneEnds100 ==
    \A t \in Threads :
        LET pv == hist[t].progress_values
        IN  /\ NonDecreasing(pv)
            /\ \A i \in 1..Len(pv) : pv[i] >= 0 /\ pv[i] <= 100
            /\ (Returned(t) /\ thr[t].success) => (pv # <<>> /\ pv[Len(pv)] = 100)
            /\ (hist[t].failed # "none" \/ (Returned(t) /\ ~thr[t].success))
                   => ~Contains(pv, 100)

C8_Witness ==
    \E t \in Threads :
        /\ Returned(t)
        /\ thr[t].success
        /\ hist[t].progress_values = <<10, 30, 60, 80, 100>>

\* C9: in the order the slots run, a run's task_completed is its last emission
\* and its progress values do not decrease.
C9_FinishedLastInOrder ==
    \A t \in Threads :
        LET d == hist[t].delivered
        IN  /\ \A i \in 1..Len(d) : d[i].sig = "task_completed" => i = Len(d)
            /\ \A i, j \in 1..Len(d) :
                  (i < j /\ d[j].sig = "progress_updated")
                      => d[i].progress <= d[j].progress

C9_Witness ==
    \E t \in Threads :
        LET d == hist[t].delivered
        IN  /\ Len(d) = 5
            /\ d[5].sig = "task_completed"
            /\ d[4].progress = 100

\* C10: a run whose load stage failed executes no other stage, writes no file,
\* has process_audio return False and emits task_completed with success False.
C10_LoadFailureIsTerminal ==
    \A t \in Threads :
        hist[t].failed = "load"
            => /\ hist[t].stages = <<"load">>
               /\ ~WroteFile(t)
               /\ Returned(t)
               /\ ~thr[t].success
               /\ hist[t].finished => ~thr[t].outcome.success

C10_Witness ==
    \E t \in Threads :
        /\ hist[t].failed = "load"
        /\ hist[t].finished
        /\ thr[t].outcome.message = "Processing failed"

\* the entries of a dict under keys other than n
Others(d, n) == SelectSeq(d, LAMBDA e : e.name # n)

\* what belongs to the names other than n is the same before and after a step
SiblingsUnchanged(n) ==
    /\ Others(tasks', n) = Others(tasks, n)
    /\ Others(processing_threads', n) = Others(processing_threads, n)
    /\ Len(items') = Len(items)
    /\ \A i \in 1..Len(items) : items[i].name # n => items'[i] = items[i]
    /\ Len(thr') = Len(thr)
    /\ \A t \in Threads : thr[t].task.name # n => thr'[t] = thr[t]

\* C11: on_task_completed for the (False, "Processing failed") of a run whose
\* stage failed, from the slot's entry to its return through stop_task,
\* changes no registry entry, thread, running state or progress of another
\* name, and returns the GUI thread to its event loop, where add, remove,
\* start and stop are taken again.
C11_FailureLeavesSiblings ==
    [][ /\ (/\ main.pc = "idle"
            /\ queue # <<>>
            /\ queue' = Tail(queue)
            /\ Head(queue).sig = "task_completed"
            /\ Head(queue).message = "Processing failed")
            => /\ SiblingsUnchanged(Head(queue).name)
               /\ main'.pc = "wait" => main'.name = Head(queue).name
        /\ (/\ main.pc = "wait"
            /\ main.cont = "completed"
            /\ main.message = "Processing failed"
            /\ main' # main)
            => /\ SiblingsUnchanged(main.name)
               /\ main'.pc = "idle" ]_vars

\* the failure of one run was handled while the thread of another name was
\* in its pipeline, and the GUI thread is back in its event loop
C11_Witness ==
    \E t, u \in Threads :
        /\ thr[t].task.name # thr[u].task.name
        /\ hist[t].failed # "none"
        /\ thr[t].outcome.message = "Processing failed"
        /\ Contains(hist[t].delivered, [sig |-> "task_completed", progress |-> 0])
        /\ hist[t].stopReturned
        /\ thr[u].pc = "stage"
        /\ Has(processing_threads, thr[u].task.name)
        /\ items[Get(tasks, thr[u].task.name).item].is_running
        /\ main.pc = "idle"

\* on_task_completed has run for the task_completed of thread t and returned
Handled(t) ==
    /\ Contains(hist[t].delivered, [sig |-> "task_completed", progress |-> 0])
    /\ main.pc = "idle"

\* C12: once the (False, "Processing failed") of a run has been through
\* on_task_completed, the task, while it is registered and not started again,
\* is not running, has no thread (start_task would create one) and its item
\* shows the failure message.
C12_FailedRunIsRecorded ==
    \A t \in Threads :
        LET n == thr[t].task.name
        IN  (/\ hist[t].finished
             /\ thr[t].outcome.message = "Processing failed"
             /\ Handled(t)
             /\ Has(tasks, n)
             /\ \A u \in Threads : thr[u].task.name = n => u <= t)
                => /\ ~Has(processing_threads, n)
                   /\ StartGuard(n)
                   /\ ~items[Get(tasks, n).item].is_running
                   /\ items[Get(tasks, n).item].status_visible
                   /\ items[Get(tasks, n).item].message = "Processing failed"
                   /\ ~items[Get(tasks, n).item].success

\* C13: a run whose save stage failed leaves no file at its output path, and
\* every file at an output path is the complete output of a save stage that
\* succeeded.
C13_SaveIsAtomic ==
    /\ \A t \in Threads : hist[t].failed = "save" => ~WroteFile(t)
    /\ \A f \in files : f.complete /\ hist[f.tid].failed = "none"

\* the output path of input path p, taken apart again as a path: it is in the
\* directory of p, its stem is the stem of p followed by "_cleaned", its suffix
\* is the suffix of p, and it is not p
OutputPathShape(p) ==
    LET out == output_path(p)
    IN  /\ out.dir = p.dir
        /\ PathStem(out) = PathStem(p) \o <<"_cleaned">>
        /\ PathSuffix(out) = PathSuffix(p)
        /\ out # p

\* every descriptor the orchestrator has built: the registered tasks and the
\* tasks of the threads
Descriptors ==
    {tasks[i].task : i \in 1..Len(tasks)}
        \cup {thr[t].task : t \in {u \in Threads : thr[u].pc # "gone"}}

EndsWithDot(p) == p.file # <<>> /\ p.file[Len(p.file)] = "."

C15_OutputExtensionIsFormat ==
    \A d \in Descriptors :
        LET s == PathSuffix(output_path(d.input_path))
        IN  /\ Len(s) = 2
            /\ Lower(s[2]) = output_format(d.input_path)

\* thread t has been started and run() has not returned
Live(t) == thr[t].pc \notin {"done", "gone"}

\* C16: two registered tasks with different names have different output
\* paths, and two threads whose run() has not returned have different output
\* paths.
C16_DistinctOutputPaths ==
    /\ \A i, j \in 1..Len(tasks) :
          tasks[i].name # tasks[j].name
              => output_path(tasks[i].task.input_path)
                     # output_path(tasks[j].task.input_path)
    /\ \A t, u \in Threads :
          (t # u /\ Live(t) /\ Live(u))
              => output_path(thr[t].task.input_path)
                     # output_path(thr[u].task.input_path)

\* two threads run at once, one has written its output file and the other is
\* in its pipeline
C16_Witness ==
    \E t, u \in Threads :
        /\ t # u
        /\ Live(t)
        /\ Live(u)
        /\ WroteFile(t)
        /\ thr[u].pc = "stage"
        /\ Has(tasks, thr[t].task.name)
        /\ Has(tasks, thr[u].task.name)

\* C17: remove_task, start_task and stop_task called with a name that is not
\* registered give the UnknownTask error back to their caller.
C17_UnknownNameIsReported ==
    \A n \in NamesOf(Configs) :
        ~Has(tasks, n)
            => /\ remove_task_result(n) = "UnknownTask"
               /\ start_task_result(n) = "UnknownTask"
               /\ stop_task_result(n) = "UnknownTask"

\* C18: once the task_completed of the last run of a registered task has been
\* through on_task_completed, the task is not running and its item shows that
\* run's outcome and message, "Task cancelled" for a run that was stopped.
C18_LastOutcomeIsRecorded ==
    \A t \in Threads :
        LET n == thr[t].task.name
        IN  (/\ hist[t].finished
             /\ Handled(t)
             /\ Has(tasks, n)
             /\ \A u \in Threads : thr[u].task.name = n => u <= t)
                => /\ ~Has(processing_threads, n)
                   /\ ~items[Get(tasks, n).item].is_running
                   /\ items[Get(tasks, n).item].status_visible
                   /\ items[Get(tasks, n).item].message = thr[t].outcome.message
                   /\ items[Get(tasks, n).item].success = thr[t].outcome.success

\* C19: a stop_task for one name (called directly, by remove_task or by
\* on_task_completed), from its entry to its return, pops and clears the flag
\* of the thread registered for that name only, and changes no registry
\* entry, thread, flag or item of another name; a thread that stop() was never
\* called on does not emit "Task cancelled".
C19_StopIsPerTask ==
    [][ /\ (main.pc = "idle" /\ main'.pc = "wait" /\ main'.cont # "stop_all")
            => /\ SiblingsUnchanged(main'.name)
               /\ Has(processing_threads, main'.name)
               /\ Get(processing_threads, main'.name).tid = main'.tid
               /\ ~Has(processing_threads', main'.name)
               /\ ~thr'[main'.tid].is_running
        /\ (main.pc = "wait" /\ main.cont # "stop_all" /\ main' # main)
            => SiblingsUnchanged(main.name)
        /\ \A t \in Threads :
              (hist[t].stop = "none" /\ thr[t].pc # "gone")
                  => thr[t].outcome.message # "Task cancelled" ]_vars

\* stop_task has returned for one name while the thread of another name, never
\* stopped, is in its pipeline with its flag set
C19_Witness ==
    \E t, u \in Threads :
        /\ thr[t].task.name # thr[u].task.name
        /\ hist[t].stop = "before_save"
        /\ hist[t].stopReturned
        /\ main.pc = "idle"
        /\ hist[u].stop = "none"
        /\ thr[u].pc = "stage"
        /\ thr[u].is_running
        /\ Has(processing_threads, thr[u].task.name)
        /\ items[Get(tasks, thr[u].task.name).item].is_running

\* the checkpoints of a whole pipeline, in pipeline order
Checkpoints(enh) == IF enh THEN <<10, 30, 60, 80, 100>> ELSE <<10, 30, 80, 100>>

IsPrefix(a, b) == Len(a) <= Len(b) /\ a = SubSeq(b, 1, Len(a))

\* C20: the progress values of a run are a prefix of <<10, 30, 80, 100>>
\* (<<10, 30, 60, 80, 100>> with speech enhancement), the whole sequence
\* exactly when process_audio returned True, and a run with the whole sequence
\* emits task_completed(True, "Processing completed successfully").
C20_ProgressPrefixAndTerminal ==
    \A t \in Threads :
        thr[t].pc # "gone"
            => LET pv == hist[t].progress_values
                   cp == Checkpoints(thr[t].task.enable_speech_enhancement)
               IN  /\ IsPrefix(pv, cp)
                   /\ Returned(t) => ((pv = cp) <=> thr[t].success)
                   /\ (hist[t].finished /\ pv = cp)
                         => thr[t].outcome =
                                [success |-> TRUE,
                                 message |-> "Processing completed successfully"]

\* the text of the exception a stage raises, one per stage
StageErrorMessage(stage) ==
    CASE stage = "load" -> "LoadError"
      [] stage = "noise_reduction" -> "NoiseReductionError"
      [] stage = "speech_enhancement" -> "EnhancementError"
      [] stage = "save" -> "EncodeError"

\* C21: the task_completed of a run that failed in a stage, and was not
\* stopped, carries the message of that stage's error: the load error's
\* message when the load stage failed, another one for each other stage.
C21_FailureMessageNamesStage ==
    \A t \in Threads :
        (hist[t].finished /\ hist[t].failed # "none" /\ hist[t].stop = "none")
            => /\ ~thr[t].outcome.success
               /\ thr[t].outcome.message = StageErrorMessage(hist[t].failed)

\* the output formats that are compressed containers the raw writer does not
\* write
Compressed == {"mp3", "m4a", "aac"}

\* C22: the save stage of a run takes the branch that writes a WAV buffer in
\* memory and transcodes it exactly when the output format is mp3, m4a or
\* aac, and writes the samples straight to the output path otherwise.
C22_CompressedFormatsAreTranscoded ==
    \A t \in Threads :
        hist[t].writer # "none"
            => (hist[t].writer = "transcode"
                    <=> output_format(thr[t].task.input_path) \in Compressed)

\* C23: the noise clip a run hands to reduce_noise is the prefix of the loaded
\* signal of length min(len(y), sr), the whole signal when it is shorter than
\* sr samples, and the signal handed on for reduction is the whole signal.
C23_NoiseClipIsClampedPrefix ==
    \A t \in Threads :
        Contains(hist[t].stages, "noise_reduction")
            => LET sig == Signal(thr[t].task.input_path)
                   clip == hist[t].noise_clip
               IN  /\ Len(clip) = IF Len(sig.y) < sig.sr THEN Len(sig.y) ELSE sig.sr
                   /\ \A i \in 1..Len(clip) : clip[i] = sig.y[i]
                   /\ Len(sig.y) < sig.sr => clip = sig.y
                   /\ hist[t].y_reduced = sig.y

\* a signal shorter than one second went through noise reduction
C23_Witness ==
    \E t \in Threads :
        /\ Contains(hist[t].stages, "noise_reduction")
        /\ hist[t].y_reduced = <<7>>
        /\ hist[t].noise_clip = <<7>>
        /\ Signal(thr[t].task.input_path).sr = 2

\* C24: once stop() has been called on a started thread its is_running flag
\* stays False for the rest of the run: run() does not write it back.
C24_StopFlagStaysSet ==
    \A t \in Threads :
        (hist[t].stop # "none" /\ thr[t].pc # "gone") => ~thr[t].is_running

\* C25: every name with an entry in processing_threads, and the name the GUI
\* thread is stopping, has an entry in tasks, so the lookup of stop_task line
\* 174 never raises KeyError.
C25_ThreadsAreRegistered ==
    /\ \A i \in 1..Len(processing_threads) : Has(tasks, processing_threads[i].name)
    /\ main.pc = "wait" => Has(tasks, main.name)
    /\ main.cont # "KeyError"

\* a task was removed while its thread ran: stop_task went through its lookup
\* before the record was popped, and no thread is left for the name
C25_Witness ==
    \E t \in Threads :
        /\ hist[t].stop = "before_save"
        /\ hist[t].stopReturned
        /\ main.pc = "idle"
        /\ ~Has(tasks, thr[t].task.name)
        /\ ~Has(processing_threads, thr[t].task.name)
        /\ \E u \in Threads : u # t /\ Has(processing_threads, thr[u].task.name)

\* C26: a thread emits task_completed at most once, and exactly once by the
\* time run() is in its finally clause; every started thread finishes run();
\* and the GUI thread blocked in the wait() of stop_task gets back to its
\* event loop.
C26_OneCompletionThenTermination ==
    /\ [](\A t \in Threads :
             thr[t].pc # "gone"
                 => /\ hist[t].completions <= 1
                    /\ thr[t].pc \in {"finally", "done"} => hist[t].completions = 1
                    /\ thr[t].pc \in {"started", "stage", "check", "emit"}
                          => hist[t].completions = 0)
    /\ \A t \in 1..RunRuns :
          (Len(thr) >= t) ~> (Len(thr) >= t /\ thr[t].pc \in {"done", "gone"})
    /\ (main.pc = "wait") ~> (main.pc = "idle")

\* a stopped run has emitted its one task_completed, finished, and stop_task
\* has returned
C26_Witness ==
    \E t \in Threads :
        /\ thr[t].pc = "done"
        /\ hist[t].completions = 1
        /\ hist[t].stop = "before_save"
        /\ hist[t].stopReturned
        /\ thr[t].outcome.message = "Task cancelled"
        /\ main.pc = "idle"

\* C27: when on_task_completed takes a task_completed emission and stops a
\* thread, the thread it stops is the one that emitted it.
C27_CompletionEndsItsOwnRun ==
    [][ (/\ main.pc = "idle"
         /\ queue # <<>>
         /\ queue' = Tail(queue)
         /\ Head(queue).sig = "task_completed"
         /\ main'.pc = "wait")
            => main'.tid = Head(queue).tid ]_vars
====
